---- MODULE Spec2Model ----
(***************************************************************************)
(* Trace assembly and integrity pipeline of pr-telemetry: chunked          *)
(* ingestion (api/services/ingest.py), the HMAC hash chain                 *)
(* (api/services/hash_chain.py), finalization (api/services/finalize.py),  *)
(* the HTTP handlers that call them (api/main.py) and the QA task that     *)
(* moves a trace through its last states (worker/tasks.py).                *)
(*                                                                         *)
(* Spec     : every HTTP request runs to completion before the next one    *)
(*            starts (the QA task, a separate worker process with two      *)
(*            commits, is two steps).                                      *)
(* ConcSpec : two request workers; a request is split where its database   *)
(*            session reads (the call) and where it commits.               *)
(***************************************************************************)
EXTENDS Integers, Sequences, FiniteSets, TLC

VARIABLES
    traces,      \* table traces: trace id -> row (db/models.py Trace)
    chunks,      \* table trace_chunks: set of rows (db/models.py TraceChunk)
    artifacts,   \* table artifacts: rows in insertion order (db/models.py Artifact)
    blobs,       \* bucket pr-telemetry-chunks: object name -> stored chunk payload
    docs,        \* bucket pr-telemetry-traces: trace id -> stored trace_final.json
    qa,          \* queued and running QA jobs, and the qa_results table
    now,         \* the server clock read by datetime.utcnow()
    req,         \* per worker: the request whose session has not committed yet
    resp,        \* per worker: the last response returned
    idem         \* table idempotency_keys: key -> row (db/models.py IdempotencyKey)

vars == <<traces, chunks, artifacts, blobs, docs, qa, now, req, resp, idem>>

-----------------------------------------------------------------------------
(* Bounds of the model *)

\* event seq values sent by clients are 0..MaxSeq
MaxSeq == 1
\* a chunk carries at most MaxChunkLen events
MaxChunkLen == 2
\* the clock stops the model after MaxClock clock-reading requests
MaxClock == 3
\* at most MaxJobs QA jobs are queued or running at a time
MaxJobs == 2

TraceIds == {"t1"}
ChunkIds == {"c1", "c2"}
ChunkSeqs == {0, 1}
EventIds == {"evt-1", "evt-2"}
Workers == {"w1", "w2"}
\* the worker that serves every request of the sequential specification
SeqWorker == "w1"

\* TraceStatus values
CREATED == "created"
INGESTING == "ingesting"
COMPLETED == "completed"
VALIDATING == "validating"
VALIDATED == "validated"
FAILED == "failed"

\* Python None for a digest, a uri, a timestamp
NoHash == <<>>
NoUri == ""
NoTime == 0

\* A ts_server_s a client puts into an event; the server's clock never shows it.
ClientTimes == {MaxClock + 2}

\* An event as the client sends it (a dict the request model does not look
\* into): with a ts_server_s of its own, or without the key (NoTime).  The other
\* keys the document schema requires are taken to be there.
StampedClientEvents == [id : EventIds, seq : 0..MaxSeq, ts_server_s : ClientTimes]
BareClientEvents == [id : EventIds, seq : 0..MaxSeq, ts_server_s : {NoTime}]
ClientEvents == StampedClientEvents \cup BareClientEvents

RECURSIVE SeqsUpTo(_, _)
SeqsUpTo(S, n) ==
    IF n = 0 THEN {<<>>}
    ELSE LET shorter == SeqsUpTo(S, n - 1)
         IN  shorter \cup {Append(s, x) : s \in {q \in shorter : Len(q) = n - 1}, x \in S}

\* The event lists a request may carry: up to MaxChunkLen events that have the
\* key, or one event that lacks it.
Payloads ==
    SeqsUpTo(StampedClientEvents, MaxChunkLen) \cup {<<e>> : e \in BareClientEvents}

\* An entry of the artifacts mapping whose value is empty (None, "", {}).
EmptyEntry == ""

\* The artifacts mapping of a request: its entries, each the type the entry is
\* stored under.
ArtifactInputs == {<<>>, <<"workspace_snapshot">>}

\* mappings that also hold an empty entry
SparseArtifactInputs ==
    ArtifactInputs \cup {<<EmptyEntry>>, <<EmptyEntry, "workspace_snapshot">>}

\* The bodies of the ingest requests clients send: every event list without
\* artifacts, and the lists of at most one event with a workspace snapshot.
IngestBodies ==
    {[chunk_seq |-> cs, events |-> evs, artifacts |-> arts] :
        cs \in ChunkSeqs, evs \in Payloads, arts \in ArtifactInputs} \
    {b \in [chunk_seq : ChunkSeqs, events : Payloads, artifacts : ArtifactInputs] :
        b.artifacts # <<>> /\ Len(b.events) > 1}

\* The bodies sent by overlapping requests: at most one event, no artifacts.
ConcBodies ==
    {b \in IngestBodies : b.chunk_seq = 0 /\ Len(b.events) <= 1 /\ b.artifacts = <<>>}

\* A request body for a call that returns before it reads its body.
AnyBody == [chunk_seq |-> 0, events |-> <<>>, artifacts |-> <<>>]

-----------------------------------------------------------------------------
(* Hash-chain engine: api/services/hash_chain.py *)

\* json.dumps(event_dict, sort_keys=True, separators=(",", ":")): the values in
\* key order id < seq < ts_server_s.
event_json(e) == <<e.id, e.seq, e.ts_server_s>>

\* the digest of the event alone, the previous digest left out
hash_without_previous(event_dict, previous_hash) == <<event_json(event_dict)>>

\* HMAC-SHA256 under SECRET_KEY, taken as collision-free: the digest stands for
\* the message it was computed from; the message "prev:json" is the list of the
\* serialized events chained so far.
compute_event_hash(event_dict, previous_hash) ==
    IF previous_hash # NoHash
    THEN Append(previous_hash, event_json(event_dict))
    ELSE <<event_json(event_dict)>>

RECURSIVE chain_from(_, _)
chain_from(events, current_hash) ==
    IF events = <<>> THEN current_hash
    ELSE chain_from(Tail(events), compute_event_hash(Head(events), current_hash))

\* the digest of the last event alone
hash_of_last(events) ==
    IF events = <<>> THEN NoHash
    ELSE compute_event_hash(events[Len(events)], NoHash)

compute_chain_hash(events) ==
    IF events = <<>> THEN NoHash ELSE chain_from(events, NoHash)

-----------------------------------------------------------------------------
(* Storage: api/storage/minio_client.py *)

\* object name f"{trace_id}/chunks/chunk_{chunk_seq:04d}_{chunk_id}.json"
chunk_object_name(trace_id, chunk_seq, chunk_id) == <<trace_id, chunk_seq, chunk_id>>

\* uri of f"{trace_id}/trace_final.json"
final_uri(trace_id) == trace_id

\* put_object: the object of that name is created or replaced
upload(store, object_name, data) ==
    [n \in DOMAIN store \cup {object_name} |->
        IF n = object_name THEN data ELSE store[n]]

-----------------------------------------------------------------------------
(* Tables *)

NewTrace ==
    [status |-> CREATED, num_events |-> 0, last_seq |-> -1,
     event_hash_chain |-> NoHash, final_trace_uri |-> NoUri,
     completed_at |-> NoTime]

ChunkExists(chunk_id) == \E c \in chunks : c.id = chunk_id

ChunksOf(trace_id) == {c \in chunks : c.trace_id = trace_id}

Idle == [op |-> "idle"]
NoInfo == <<>>
NoResp == [op |-> "none", trace |-> "", result |-> "", info |-> NoInfo]

Init ==
    /\ traces = [t \in {} |-> NewTrace]
    /\ chunks = {}
    /\ artifacts = <<>>
    /\ blobs = [n \in {} |-> <<>>]
    /\ docs = [t \in {} |-> <<>>]
    /\ qa = [queued |-> 0, running |-> 0, results |-> {}]
    /\ now = 1
    /\ req = [w \in Workers |-> Idle]
    /\ resp = [w \in Workers |-> NoResp]
    /\ idem = [k \in {} |-> <<>>]

\* POST /v1/traces
create_trace(trace_id) ==
    /\ trace_id \notin DOMAIN traces
    /\ traces' = [t \in DOMAIN traces \cup {trace_id} |->
                    IF t = trace_id THEN NewTrace ELSE traces[t]]
    /\ UNCHANGED <<chunks, artifacts, blobs, docs, qa, now, req, resp, idem>>

-----------------------------------------------------------------------------
(* Ingestion: api/services/ingest.py *)

Resp(op, trace_id, result, info) ==
    [op |-> op, trace |-> trace_id, result |-> result, info |-> info]

\* event_dict["ts_server_s"] = datetime.utcnow().timestamp()
stamp(event_dict, ts) == [event_dict EXCEPT !.ts_server_s = ts]

\* the loop run over the chunk's events taken smallest seq first
RECURSIVE process_events_by_seq(_, _, _, _)
process_events_by_seq(events, hash, last_seq, ts) ==
    IF events = <<>> THEN [event_hash_chain |-> hash, last_seq |-> last_seq]
    ELSE LET k == CHOOSE i \in DOMAIN events :
                      \A j \in DOMAIN events :
                          \/ events[i].seq < events[j].seq
                          \/ events[i].seq = events[j].seq /\ i <= j
             rest == SubSeq(events, 1, k - 1) \o SubSeq(events, k + 1, Len(events))
             event_dict == stamp(events[k], ts)
         IN  process_events_by_seq(rest,
                                   compute_event_hash(event_dict, hash),
                                   IF event_dict.seq > last_seq THEN event_dict.seq
                                                                ELSE last_seq,
                                   ts)

\* The loop over the chunk's events, in the order given: stamp, chain, track seq.
RECURSIVE process_events(_, _, _, _)
process_events(events, hash, last_seq, ts) ==
    IF events = <<>> THEN [event_hash_chain |-> hash, last_seq |-> last_seq]
    ELSE LET event_dict == stamp(Head(events), ts)
         IN  process_events(Tail(events),
                            compute_event_hash(event_dict, hash),
                            IF event_dict.seq > last_seq THEN event_dict.seq
                                                         ELSE last_seq,
                            ts)

\* ingest_check without the lookup of the chunk id
ingest_check_no_duplicate(trace_id, chunk_id) ==
    IF trace_id \notin DOMAIN traces THEN "not_found"
    ELSE IF traces[trace_id].status = COMPLETED THEN "invalid_state"
    ELSE "novel"

\* The checks before any work: the trace row, its status, the chunk row.
ingest_check(trace_id, chunk_id) ==
    IF trace_id \notin DOMAIN traces THEN "not_found"
    ELSE IF traces[trace_id].status = COMPLETED THEN "invalid_state"
    ELSE IF ChunkExists(chunk_id) THEN "duplicate"
    ELSE "novel"

\* chunk_data as json.dumps writes it, before any event is stamped
chunk_data(trace_id, chunk_id, chunk_seq, events, arts) ==
    [chunk_id |-> chunk_id, chunk_seq |-> chunk_seq, trace_id |-> trace_id,
     events |-> events, artifacts |-> arts, received_at |-> now]

\* "if not artifact_data: continue": the entries _process_artifacts stores
stored_entries(arts) == SelectSeq(arts, LAMBDA entry : entry # EmptyEntry)

\* a row for every entry, the empty ones too
artifact_rows_every_entry(trace_id, arts) ==
    [i \in 1..Len(arts) |->
        [id |-> Len(artifacts) + i, trace_id |-> trace_id,
         artifact_type |-> arts[i]]]

\* _process_artifacts: one row per non-empty entry
artifact_rows(trace_id, arts) ==
    [i \in 1..Len(stored_entries(arts)) |->
        [id |-> Len(artifacts) + i, trace_id |-> trace_id,
         artifact_type |-> stored_entries(arts)[i]]]

\* the session with num_events set to the chunk's own count
ingest_session_recount(trace_id, chunk_id, chunk_seq, events, arts) ==
    LET loaded == traces[trace_id]
        p == process_events(events, loaded.event_hash_chain, loaded.last_seq, now)
    IN  [op |-> "ingest", trace_id |-> trace_id, loaded |-> loaded,
         assigned |-> [event_hash_chain |-> p.event_hash_chain,
                       last_seq |-> p.last_seq,
                       num_events |-> Len(events),
                       status |-> INGESTING],
         chunk |-> [id |-> chunk_id, trace_id |-> trace_id, chunk_seq |-> chunk_seq,
                    storage_uri |-> chunk_object_name(trace_id, chunk_seq, chunk_id),
                    num_events |-> Len(events)],
         arts |-> artifact_rows(trace_id, arts),
         events_added |-> Len(events)]

\* What the session holds when ingest_chunk reaches db.commit(): the trace row as
\* loaded, the attributes assigned on it, the pending chunk and artifact rows.
ingest_session(trace_id, chunk_id, chunk_seq, events, arts) ==
    LET loaded == traces[trace_id]
        p == process_events(events, loaded.event_hash_chain, loaded.last_seq, now)
    IN  [op |-> "ingest", trace_id |-> trace_id, loaded |-> loaded,
         assigned |-> [event_hash_chain |-> p.event_hash_chain,
                       last_seq |-> p.last_seq,
                       num_events |-> loaded.num_events + Len(events),
                       status |-> INGESTING],
         chunk |-> [id |-> chunk_id, trace_id |-> trace_id, chunk_seq |-> chunk_seq,
                    storage_uri |-> chunk_object_name(trace_id, chunk_seq, chunk_id),
                    num_events |-> Len(events)],
         arts |-> artifact_rows(trace_id, arts),
         events_added |-> Len(events)]

\* The UPDATE a flush emits sets the attributes whose assigned value differs from
\* the loaded one; the other columns keep what the table holds.
flushed_row(row, s) ==
    [f \in DOMAIN row |->
        IF f \in DOMAIN s.assigned /\ s.assigned[f] # s.loaded[f]
        THEN s.assigned[f] ELSE row[f]]

\* What a call leaves behind and answers: the tables and buckets it writes, its
\* result, the body of its response, and whether it read the clock.
Outcome(result, info, tr, ch, ar, bl, dc, clock) ==
    [result |-> result, info |-> info, traces |-> tr, chunks |-> ch,
     artifacts |-> ar, blobs |-> bl, docs |-> dc, reads_clock |-> clock]

\* A call that returns or raises before it writes anything.
Untouched(result) ==
    Outcome(result, NoInfo, traces, chunks, artifacts, blobs, docs, FALSE)

\* db.commit() of ingest_chunk: the INSERT of a chunk id already in the table
\* fails (primary key) and the transaction is rolled back; otherwise the rows
\* are written and the summary of lines 124-130 is returned.
ingest_commit(s, uploaded) ==
    IF ChunkExists(s.chunk.id)
    THEN Outcome("integrity_error", NoInfo, traces, chunks, artifacts,
                 uploaded, docs, TRUE)
    ELSE Outcome("success",
                 [events_added |-> s.events_added,
                  artifacts_added |-> Len(s.arts),
                  total_events |-> s.assigned.num_events],
                 [traces EXCEPT ![s.trace_id] = flushed_row(@, s)],
                 chunks \cup {s.chunk},
                 artifacts \o s.arts,
                 uploaded, docs, TRUE)

\* upload_json(BUCKET_CHUNKS, object_name, chunk_json)
upload_chunk(trace_id, chunk_id, chunk_seq, events, arts) ==
    upload(blobs, chunk_object_name(trace_id, chunk_seq, chunk_id),
           chunk_data(trace_id, chunk_id, chunk_seq, events, arts))

\* ingest_chunk from its first line to its return, nothing else running in
\* between.
ingest_chunk_outcome(trace_id, chunk_id, chunk_seq, events, arts) ==
    LET check == ingest_check(trace_id, chunk_id)
    IN  IF check # "novel" THEN Untouched(check)
        ELSE ingest_commit(
                 ingest_session(trace_id, chunk_id, chunk_seq, events, arts),
                 upload_chunk(trace_id, chunk_id, chunk_seq, events, arts))

\* The request bodies that lead to different steps: a call that returns early
\* never reads its body.
BodiesFor(trace_id, chunk_id, bodies) ==
    IF ingest_check(trace_id, chunk_id) = "novel" THEN bodies ELSE {AnyBody}

\* The step of a worker that runs a whole call.
Apply(w, op, trace_id, out) ==
    /\ req[w] = Idle
    /\ out.reads_clock => now <= MaxClock
    /\ traces' = out.traces
    /\ chunks' = out.chunks
    /\ artifacts' = out.artifacts
    /\ blobs' = out.blobs
    /\ docs' = out.docs
    /\ now' = IF out.reads_clock THEN now + 1 ELSE now
    /\ resp' = [resp EXCEPT ![w] = Resp(op, trace_id, out.result, out.info)]
    /\ UNCHANGED req

\* POST /v1/traces/{trace_id}/events:ingest
ingest_chunk(w, trace_id, chunk_id, chunk_seq, events, arts) ==
    /\ Apply(w, "ingest", trace_id,
             ingest_chunk_outcome(trace_id, chunk_id, chunk_seq, events, arts))
    /\ UNCHANGED <<qa, idem>>

\* The steps of ingest_chunk after the duplicate check that can raise: the chunk
\* upload (line 78), the hash chain of an event (lines 96-100), the upload of an
\* artifact (line 162), db.commit() (line 117).
FailSteps(events, arts) ==
    {"chunk_upload", "commit"}
        \cup (IF events # <<>> THEN {"hash_chain"} ELSE {})
        \cup (IF stored_entries(arts) # <<>> THEN {"artifact_upload"} ELSE {})

\* db.commit() written through although a step raised
ingest_commit_despite_error(s, uploaded) ==
    Outcome("error", NoInfo,
            [traces EXCEPT ![s.trace_id] = flushed_row(@, s)],
            chunks \cup {s.chunk}, artifacts \o s.arts, uploaded, docs, TRUE)

\* A step raised: ingest_events answers 500 and get_db closes the session, which
\* discards what the session holds; what was uploaded stays in the bucket.
ingest_rollback(s, uploaded) ==
    Outcome("error", NoInfo, traces, chunks, artifacts, uploaded, docs, TRUE)

\* ingest_chunk of a novel chunk with the given step raising
ingest_failure_outcome(trace_id, chunk_id, chunk_seq, events, arts, step) ==
    ingest_rollback(
        ingest_session(trace_id, chunk_id, chunk_seq, events, arts),
        IF step = "chunk_upload" THEN blobs
        ELSE upload_chunk(trace_id, chunk_id, chunk_seq, events, arts))

\* POST /v1/traces/{trace_id}/events:ingest with a step of ingest_chunk raising
ingest_chunk_fails(w, trace_id, chunk_id, chunk_seq, events, arts, step) ==
    /\ ingest_check(trace_id, chunk_id) = "novel"
    /\ step \in FailSteps(events, arts)
    /\ Apply(w, "ingest", trace_id,
             ingest_failure_outcome(trace_id, chunk_id, chunk_seq, events, arts, step))
    /\ UNCHANGED <<qa, idem>>

\* The same call as two steps of one worker of a concurrent server: up to the
\* commit (an early return, or the upload and the session's work), then the
\* commit.
ingest_call(w, trace_id, chunk_id, chunk_seq, events, arts) ==
    /\ req[w] = Idle
    /\ IF ingest_check(trace_id, chunk_id) # "novel"
       THEN /\ resp' = [resp EXCEPT ![w] =
                           Resp("ingest", trace_id,
                                ingest_check(trace_id, chunk_id), NoInfo)]
            /\ UNCHANGED <<blobs, req, now>>
       ELSE /\ now <= MaxClock
            /\ blobs' = upload_chunk(trace_id, chunk_id, chunk_seq, events, arts)
            /\ req' = [req EXCEPT ![w] =
                          ingest_session(trace_id, chunk_id, chunk_seq, events, arts)]
            /\ now' = now + 1
            /\ UNCHANGED resp
    /\ UNCHANGED <<traces, chunks, artifacts, docs, qa, idem>>

ingest_commit_step(w) ==
    /\ req[w].op = "ingest"
    /\ LET out == ingest_commit(req[w], blobs)
       IN  /\ traces' = out.traces
           /\ chunks' = out.chunks
           /\ artifacts' = out.artifacts
           /\ resp' = [resp EXCEPT ![w] =
                          Resp("ingest", req[w].trace_id, out.result, out.info)]
    /\ req' = [req EXCEPT ![w] = Idle]
    /\ UNCHANGED <<blobs, docs, qa, now, idem>>

-----------------------------------------------------------------------------
(* Idempotency keys: api/main.py check_idempotency, store_idempotency *)

\* no Idempotency-Key header
NoKey == ""
Keys == {"k1", "k2"}
IdemTraceIds == {"t1", "t2"}
\* the bodies of the requests that carry keys: no event, or one event of seq 0
IdemBodies ==
    {b \in ConcBodies :
        \A i \in DOMAIN b.events : b.events[i] \in StampedClientEvents /\ b.events[i].seq = 0}

\* no row is found for the key
idempotency_miss(key, trace_id) == FALSE

\* The query of check_idempotency finds a row: same key, trace and endpoint.
idempotency_row_found(key, trace_id) ==
    /\ key # NoKey
    /\ key \in DOMAIN idem
    /\ idem[key].trace_id = trace_id
    /\ idem[key].endpoint = "ingest_events"

\* check_idempotency deletes the row it found when it has expired.
after_expiry_check(key, trace_id) ==
    IF idempotency_row_found(key, trace_id) /\ idem[key].expired
    THEN [k \in DOMAIN idem \ {key} |-> idem[k]]
    ELSE idem

\* store_idempotency: the INSERT of a key the table holds fails (the primary key
\* is the key alone); the exception reaches the handler's except branch.
store_idempotency(table, key, trace_id, result, info) ==
    IF key \in DOMAIN table THEN table
    ELSE [k \in DOMAIN table \cup {key} |->
            IF k = key
            THEN [trace_id |-> trace_id, endpoint |-> "ingest_events",
                  response_body |-> [result |-> result, info |-> info],
                  expired |-> FALSE]
            ELSE table[k]]

Handled(result, info, db, table) ==
    [result |-> result, info |-> info, db |-> db, idem |-> table]

\* ingest_events from verify_upload_token to its response: the replay of a stored
\* response, or ingest_chunk and, for its dict results, the storing of the key.
ingest_events_outcome(trace_id, key, chunk_id, chunk_seq, events, arts) ==
    IF trace_id \notin DOMAIN traces
    THEN Handled("not_found", NoInfo, Untouched("not_found"), idem)
    ELSE IF idempotency_row_found(key, trace_id) /\ ~idem[key].expired
    THEN Handled(idem[key].response_body.result, idem[key].response_body.info,
                 Untouched("replay"), idem)
    ELSE LET out == ingest_chunk_outcome(trace_id, chunk_id, chunk_seq, events, arts)
             table == after_expiry_check(key, trace_id)
         IN  IF out.result \notin {"success", "duplicate"}
             THEN Handled(out.result, NoInfo, out, table)
             ELSE IF key = NoKey
             THEN Handled(out.result, out.info, out, table)
             ELSE IF key \in DOMAIN table
             THEN Handled("idempotency_error", NoInfo, out, table)
             ELSE Handled(out.result, out.info, out,
                          store_idempotency(table, key, trace_id,
                                            out.result, out.info))

\* POST /v1/traces/{trace_id}/events:ingest with an optional Idempotency-Key
ingest_events(w, trace_id, key, chunk_id, chunk_seq, events, arts) ==
    LET h == ingest_events_outcome(trace_id, key, chunk_id, chunk_seq, events, arts)
    IN  /\ Apply(w, "ingest", trace_id,
                 [h.db EXCEPT !.result = h.result, !.info = h.info])
        /\ idem' = h.idem
        /\ UNCHANGED qa

\* The wall clock passes the expires_at of a key's row.
key_expires(key) ==
    /\ key \in DOMAIN idem
    /\ ~idem[key].expired
    /\ idem' = [idem EXCEPT ![key].expired = TRUE]
    /\ UNCHANGED <<traces, chunks, artifacts, blobs, docs, qa, now, req, resp>>

-----------------------------------------------------------------------------
(* Finalization: api/services/finalize.py *)

\* query(TraceChunk).filter(trace_id).order_by(chunk_seq).all(): every order of
\* the trace's chunk rows that ascends in chunk_seq (rows of equal chunk_seq come
\* in an order the database chooses).
chunk_orders(trace_id) ==
    LET rows == ChunksOf(trace_id)
        n == Cardinality(rows)
    IN  {order \in [1..n -> rows] :
            /\ \A c \in rows : \E i \in 1..n : order[i] = c
            /\ \A i \in 1..n - 1 : order[i].chunk_seq <= order[i + 1].chunk_seq}

\* the events of the last chunk row alone
load_last_chunk(order) ==
    IF order = <<>> THEN <<>>
    ELSE blobs[order[Len(order)].storage_uri].events

\* _load_chunk and all_events.extend(...), chunk after chunk
RECURSIVE load_events(_)
load_events(order) ==
    IF order = <<>> THEN <<>>
    ELSE blobs[Head(order).storage_uri].events \o load_events(Tail(order))

\* list.sort(key=lambda e: e["seq"]) is stable: an event goes after every event
\* already placed whose seq is not larger.
RECURSIVE insert_by_seq(_, _)
insert_by_seq(sorted, e) ==
    IF sorted = <<>> THEN <<e>>
    ELSE IF Head(sorted).seq <= e.seq
         THEN <<Head(sorted)>> \o insert_by_seq(Tail(sorted), e)
         ELSE <<e>> \o sorted

\* the merged list left in the order of the chunk rows
unsorted(events) == events

RECURSIVE sort_by_seq(_)
sort_by_seq(events) ==
    IF events = <<>> THEN <<>>
    ELSE insert_by_seq(sort_by_seq(SubSeq(events, 1, Len(events) - 1)),
                       events[Len(events)])

\* the comparison that demands the very next seq: no gap passes
seq_not_next(seq, expected_seq) == seq # expected_seq

\* the comparison against the previous seq itself: an equal seq passes
seq_below_previous(seq, expected_seq) == seq < expected_seq - 1

\* The comparison of _validate_event_sequence that raises "Out-of-order sequence".
seq_regresses(seq, expected_seq) == seq < expected_seq

\* the loop without the seen_ids test
RECURSIVE validate_seq_only(_, _, _)
validate_seq_only(events, seen_ids, expected_seq) ==
    IF events = <<>> THEN "ok"
    ELSE IF seq_regresses(Head(events).seq, expected_seq) THEN "out_of_order"
    ELSE validate_seq_only(Tail(events), seen_ids, Head(events).seq + 1)

\* _validate_event_sequence: the loop from the state (seen_ids, expected_seq).
RECURSIVE validate_from(_, _, _)
validate_from(events, seen_ids, expected_seq) ==
    IF events = <<>> THEN "ok"
    ELSE LET event == Head(events)
         IN  IF event.id \in seen_ids THEN "duplicate_event_id"
             ELSE IF seq_regresses(event.seq, expected_seq) THEN "out_of_order"
             ELSE validate_from(Tail(events), seen_ids \cup {event.id},
                                event.seq + 1)

validate_event_sequence(events) == validate_from(events, {}, 0)

\* the sorted list with every event dropped whose id an earlier one carries
RECURSIVE drop_repeated_ids(_, _)
drop_repeated_ids(events, seen_ids) ==
    IF events = <<>> THEN <<>>
    ELSE IF Head(events).id \in seen_ids
         THEN drop_repeated_ids(Tail(events), seen_ids)
         ELSE <<Head(events)>> \o
              drop_repeated_ids(Tail(events), seen_ids \cup {Head(events).id})

merged_deduplicated(order) == drop_repeated_ids(sort_by_seq(load_events(order)), {})

\* all_events of finalize_trace for one order of the chunk rows
merged_events(order) == sort_by_seq(load_events(order))

\* An event dict parses as a TraceEvent: BaseEvent requires ts_server_s.
parses_as_trace_event(e) == e.ts_server_s # NoTime

\* PRTelemetryTrace(events=events) in _build_final_trace: every event parses,
\* then the field validator validate_event_sequence (no seq twice, the list in
\* seq order).
document_validates(events) ==
    /\ \A i \in DOMAIN events : parses_as_trace_event(events[i])
    /\ \A i, j \in DOMAIN events : i # j => events[i].seq # events[j].seq
    /\ sort_by_seq(events) = events

\* finalize_check without the test of the COMPLETED status
finalize_check_no_completed(trace_id, order) ==
    IF trace_id \notin DOMAIN traces THEN "not_found"
    ELSE IF ChunksOf(trace_id) = {} THEN "no_chunks"
    ELSE IF validate_event_sequence(merged_events(order)) # "ok"
         THEN validate_event_sequence(merged_events(order))
    ELSE IF ~document_validates(merged_events(order)) THEN "validation_error"
    ELSE "success"

\* finalize_check without the test for an empty chunk query
finalize_check_any_chunks(trace_id, order) ==
    IF trace_id \notin DOMAIN traces THEN "not_found"
    ELSE IF traces[trace_id].status = COMPLETED THEN "already_completed"
    ELSE IF validate_event_sequence(merged_events(order)) # "ok"
         THEN validate_event_sequence(merged_events(order))
    ELSE IF ~document_validates(merged_events(order)) THEN "validation_error"
    ELSE "success"

\* finalize_check with NoChunks raised for an empty merged list
finalize_check_no_events(trace_id, order) ==
    IF trace_id \notin DOMAIN traces THEN "not_found"
    ELSE IF traces[trace_id].status = COMPLETED THEN "already_completed"
    ELSE IF merged_events(order) = <<>> THEN "no_chunks"
    ELSE IF validate_event_sequence(merged_events(order)) # "ok"
         THEN validate_event_sequence(merged_events(order))
    ELSE IF ~document_validates(merged_events(order)) THEN "validation_error"
    ELSE "success"

\* The checks of finalize_trace, in its order, for one order of the chunk rows.
finalize_check(trace_id, order) ==
    IF trace_id \notin DOMAIN traces THEN "not_found"
    ELSE IF traces[trace_id].status = COMPLETED THEN "already_completed"
    ELSE IF ChunksOf(trace_id) = {} THEN "no_chunks"
    ELSE IF validate_event_sequence(merged_events(order)) # "ok"
         THEN validate_event_sequence(merged_events(order))
    ELSE IF ~document_validates(merged_events(order)) THEN "validation_error"
    ELSE "success"

\* The artifact rows of type workspace_snapshot; the loop of _build_final_trace
\* takes the first one the unordered query returns.
snapshots_of(trace_id) ==
    {artifacts[i].id : i \in {j \in 1..Len(artifacts) :
        /\ artifacts[j].trace_id = trace_id
        /\ artifacts[j].artifact_type = "workspace_snapshot"}}

NoSnapshot == 0

\* the document with a digest computed over its own, seq-sorted event list
build_final_trace_rechained(trace_id, trace, events, snapshot) ==
    [trace_id |-> trace_id, events |-> events,
     artifacts |-> snapshot,
     metrics |-> [num_events |-> Len(events)],
     integrity |-> [event_hash_chain |-> compute_chain_hash(events)],
     completed_at |-> trace.completed_at]

\* _build_final_trace: the document, from the trace row as loaded
build_final_trace(trace_id, trace, events, snapshot) ==
    [trace_id |-> trace_id, events |-> events,
     artifacts |-> snapshot,
     metrics |-> [num_events |-> Len(events)],
     integrity |-> [event_hash_chain |-> trace.event_hash_chain],
     completed_at |-> trace.completed_at]

\* The keys of an event dict the metrics read.  file_path is a key of file_edit
\* events alone (NoPath: the key is absent).
EventTypes == {"file_edit", "cmd_run", "test_run", "commit"}
FilePaths == {"a.py", "b.py"}
NoPath == ""

\* sum(1 for e in events if e["type"] == type)
RECURSIVE count_type(_, _)
count_type(events, type) ==
    IF events = <<>> THEN 0
    ELSE (IF Head(events).type = type THEN 1 ELSE 0) + count_type(Tail(events), type)

\* the edits counted one by one, whatever file they touch
files_touched_per_edit(events) == count_type(events, "file_edit")

\* len(set(e["file_path"] for e in events if e["type"] == "file_edit"))
files_touched(events) ==
    Cardinality({events[i].file_path :
                    i \in {j \in DOMAIN events : events[j].type = "file_edit"}})

\* events[-1]["ts_client_s"] - events[0]["ts_client_s"], 0 for an empty list
duration_s(events) ==
    IF events # <<>>
    THEN events[Len(events)].ts_client_s - events[1].ts_client_s
    ELSE 0

\* The metrics block of _build_final_trace, from the list finalize_trace sorted
\* and validated.
compute_metrics(events) ==
    [duration_s |-> duration_s(events),
     num_events |-> Len(events),
     num_edits |-> count_type(events, "file_edit"),
     num_cmds |-> count_type(events, "cmd_run"),
     num_test_runs |-> count_type(events, "test_run"),
     files_touched |-> files_touched(events)]

\* Metrics(**metrics): every field carries ge=0.
metrics_validate(m) ==
    /\ m.duration_s >= 0
    /\ m.num_events >= 0
    /\ m.num_edits >= 0
    /\ m.num_cmds >= 0
    /\ m.num_test_runs >= 0
    /\ m.files_touched >= 0

finalize_session(trace_id) ==
    [op |-> "finalize", trace_id |-> trace_id, loaded |-> traces[trace_id],
     assigned |-> [final_trace_uri |-> final_uri(trace_id),
                   completed_at |-> now, status |-> COMPLETED]]

\* The orders in which the chunk query may return the rows, and the snapshot
\* rows the artifact query may return first.
FinalizeOrders(trace_id) ==
    IF trace_id \in DOMAIN traces THEN chunk_orders(trace_id) ELSE {<<>>}

FinalizeSnapshots(trace_id) ==
    IF snapshots_of(trace_id) = {} THEN {NoSnapshot} ELSE snapshots_of(trace_id)

\* finalize_trace from its first line to its return, nothing else running in
\* between, for one answer of the two queries.
finalize_trace_outcome(trace_id, order, snapshot) ==
    IF finalize_check(trace_id, order) # "success"
    THEN Untouched(finalize_check(trace_id, order))
    ELSE Outcome("success",
                 [num_events |-> Len(merged_events(order))],
                 [traces EXCEPT ![trace_id] =
                     flushed_row(@, finalize_session(trace_id))],
                 chunks, artifacts, blobs,
                 upload(docs, final_uri(trace_id),
                        build_final_trace(trace_id, traces[trace_id],
                                          merged_events(order), snapshot)),
                 TRUE)

\* A finalize_trace result that is an exception (complete_trace answers 500).
finalize_raises(result) ==
    result \in {"not_found", "no_chunks", "duplicate_event_id", "out_of_order",
                "validation_error", "error"}

\* The steps of finalize_trace after the document is built that can raise: the
\* upload of the document (line 72), db.commit() (line 79).
FinalizeFailSteps == {"document_upload", "commit"}

\* db.commit() written through although a step raised
finalize_commit_despite_error(s, uploaded) ==
    Outcome("error", NoInfo,
            [traces EXCEPT ![s.trace_id] = flushed_row(@, s)],
            chunks, artifacts, blobs, uploaded, s.assigned.completed_at = now)

\* A step raised: complete_trace answers 500 and get_db closes the session, which
\* discards the attributes assigned to the trace row; a document that was
\* uploaded stays in the bucket.  The clock was read if line 76 was reached.
finalize_rollback(s, uploaded) ==
    Outcome("error", NoInfo, traces, chunks, artifacts, blobs, uploaded,
            s.assigned.completed_at = now)

\* finalize_trace of a trace that passes every check, with the given step raising
finalize_failure_outcome(trace_id, order, snapshot, step) ==
    finalize_rollback(
        IF step = "commit" THEN finalize_session(trace_id)
        ELSE [finalize_session(trace_id) EXCEPT !.assigned.completed_at = NoTime],
        IF step = "document_upload" THEN docs
        ELSE upload(docs, final_uri(trace_id),
                    build_final_trace(trace_id, traces[trace_id],
                                      merged_events(order), snapshot)))

\* POST /v1/traces/{trace_id}/complete: finalize, then queue the QA job unless
\* finalize raised.
complete_trace(w, trace_id) ==
    /\ qa.queued + qa.running < MaxJobs
    /\ \E order \in FinalizeOrders(trace_id),
          snapshot \in FinalizeSnapshots(trace_id) :
          LET out == finalize_trace_outcome(trace_id, order, snapshot)
          IN  /\ Apply(w, "finalize", trace_id, out)
              /\ qa' = IF finalize_raises(out.result) THEN qa
                       ELSE [qa EXCEPT !.queued = @ + 1]
    /\ UNCHANGED idem

\* POST /v1/traces/{trace_id}/complete with a step of finalize_trace raising
finalize_trace_fails(w, trace_id, step) ==
    /\ step \in FinalizeFailSteps
    /\ \E order \in FinalizeOrders(trace_id),
          snapshot \in FinalizeSnapshots(trace_id) :
          /\ finalize_check(trace_id, order) = "success"
          /\ Apply(w, "finalize", trace_id,
                   finalize_failure_outcome(trace_id, order, snapshot, step))
    /\ UNCHANGED <<qa, idem>>

-----------------------------------------------------------------------------
(* QA task: worker/tasks.py qa_validate_and_judge *)

\* Lines 35-41: the job starts, marks the trace VALIDATING and commits.
qa_start(trace_id) ==
    /\ qa.queued > 0
    /\ qa.running = 0
    /\ trace_id \in DOMAIN traces
    /\ traces[trace_id].final_trace_uri # NoUri
    /\ traces' = [traces EXCEPT ![trace_id].status = VALIDATING]
    /\ qa' = [qa EXCEPT !.queued = @ - 1, !.running = @ + 1]
    /\ UNCHANGED <<chunks, artifacts, blobs, docs, now, req, resp, idem>>

\* Lines 43-83: validation and judge returned; the QAResult row and VALIDATED are
\* committed. qa_results.trace_id is unique: a second row fails the commit, and
\* the except branch, querying through the same session, raises again before it
\* can set FAILED.
qa_finish_ok(trace_id) ==
    /\ qa.running > 0
    /\ trace_id \in DOMAIN traces
    /\ IF trace_id \in qa.results
       THEN /\ qa' = [qa EXCEPT !.running = @ - 1]
            /\ UNCHANGED traces
       ELSE /\ qa' = [qa EXCEPT !.running = @ - 1,
                                !.results = @ \cup {trace_id}]
            /\ traces' = [traces EXCEPT ![trace_id].status = VALIDATED]
    /\ UNCHANGED <<chunks, artifacts, blobs, docs, now, req, resp, idem>>

\* Lines 93-103: a step raised; the except branch marks the trace FAILED.
qa_finish_failed(trace_id) ==
    /\ qa.running > 0
    /\ trace_id \in DOMAIN traces
    /\ traces' = [traces EXCEPT ![trace_id].status = FAILED]
    /\ qa' = [qa EXCEPT !.running = @ - 1]
    /\ UNCHANGED <<chunks, artifacts, blobs, docs, now, req, resp, idem>>

-----------------------------------------------------------------------------
(* Specifications *)

Next ==
    \/ \E t \in TraceIds : create_trace(t)
    \/ \E t \in TraceIds, c \in ChunkIds : \E b \in BodiesFor(t, c, IngestBodies) :
          ingest_chunk(SeqWorker, t, c, b.chunk_seq, b.events, b.artifacts)
    \/ \E t \in TraceIds : complete_trace(SeqWorker, t)
    \/ \E t \in TraceIds : qa_start(t)
    \/ \E t \in TraceIds : qa_finish_ok(t)
    \/ \E t \in TraceIds : qa_finish_failed(t)

Spec == Init /\ [][Next]_vars

\* Two request workers whose ingest calls overlap: each call and each commit is
\* a step of its own, and a finalize call runs between any two of them.
ConcNext ==
    \/ \E t \in TraceIds : create_trace(t)
    \/ \E w \in Workers, t \in TraceIds, c \in ChunkIds :
          \E b \in BodiesFor(t, c, ConcBodies) :
          ingest_call(w, t, c, b.chunk_seq, b.events, b.artifacts)
    \/ \E w \in Workers : ingest_commit_step(w)
    \/ \E w \in Workers, t \in TraceIds : complete_trace(w, t)

ConcSpec == Init /\ [][ConcNext]_vars

\* Requests one after the other, any step of an ingest call and of a finalize
\* call free to raise.  The bodies hold at most one event; those whose artifacts
\* mapping has an empty entry hold no event or the event of id evt-1 and seq 0.
FaultBodies ==
    {b \in IngestBodies : b.chunk_seq = 0 /\ Len(b.events) <= 1}
        \cup {[chunk_seq |-> 0, events |-> evs, artifacts |-> arts] :
                evs \in {p \in Payloads :
                            \A i \in DOMAIN p :
                                /\ Len(p) = 1
                                /\ p[i] \in StampedClientEvents
                                /\ p[i].id = "evt-1"
                                /\ p[i].seq = 0},
                arts \in SparseArtifactInputs \ ArtifactInputs}

FaultNext ==
    \/ \E t \in TraceIds : create_trace(t)
    \/ \E t \in TraceIds, c \in ChunkIds : \E b \in BodiesFor(t, c, FaultBodies) :
          ingest_chunk(SeqWorker, t, c, b.chunk_seq, b.events, b.artifacts)
    \/ \E t \in TraceIds, c \in ChunkIds, b \in FaultBodies :
          \E step \in FailSteps(b.events, b.artifacts) :
          ingest_chunk_fails(SeqWorker, t, c, b.chunk_seq, b.events, b.artifacts, step)
    \/ \E t \in TraceIds : complete_trace(SeqWorker, t)
    \/ \E t \in TraceIds, step \in FinalizeFailSteps :
          finalize_trace_fails(SeqWorker, t, step)

FaultSpec == Init /\ [][FaultNext]_vars

\* Requests one after the other on two traces, ingest calls with and without
\* idempotency keys and finalize calls.
\* A request answered before ingest_chunk reads its body does not depend on it.
IdemBodiesFor(trace_id, key, chunk_id) ==
    IF /\ trace_id \in DOMAIN traces
       /\ ~(idempotency_row_found(key, trace_id) /\ ~idem[key].expired)
    THEN BodiesFor(trace_id, chunk_id, IdemBodies)
    ELSE {AnyBody}

IdemNext ==
    \/ \E t \in IdemTraceIds : create_trace(t)
    \/ \E t \in IdemTraceIds, k \in Keys \cup {NoKey}, c \in ChunkIds :
          \E b \in IdemBodiesFor(t, k, c) :
          ingest_events(SeqWorker, t, k, c, b.chunk_seq, b.events, b.artifacts)
    \/ \E k \in Keys : key_expires(k)
    \/ \E t \in IdemTraceIds : complete_trace(SeqWorker, t)

IdemSpec == Init /\ [][IdemNext]_vars

-----------------------------------------------------------------------------
(* The hash chain and the sequence validation as functions of their input *)

\* The event dicts the two functions are applied to: any id, a seq with room for
\* gaps, with or without ts_server_s.
FunctionEvents ==
    [id : EventIds, seq : 0..MaxSeq + 2, ts_server_s : {NoTime} \cup ClientTimes]

FunctionInputs == SeqsUpTo(FunctionEvents, MaxChunkLen)

\* Both processes are handed the same list and the same function to apply.
FunctionInit ==
    /\ traces = [t \in {} |-> NewTrace]
    /\ chunks = {}
    /\ artifacts = <<>>
    /\ blobs = [n \in {} |-> <<>>]
    /\ docs = [t \in {} |-> <<>>]
    /\ qa = [queued |-> 0, running |-> 0, results |-> {}]
    /\ now = 1
    /\ \E op \in {"chain", "validate"}, events \in FunctionInputs :
          req = [w \in Workers |-> [op |-> op, events |-> events]]
    /\ resp = [w \in Workers |-> NoResp]
    /\ idem = [k \in {} |-> <<>>]

\* compute_chain_hash(events) in process w
chain_compute(w) ==
    /\ req[w].op = "chain"
    /\ resp' = [resp EXCEPT ![w] =
                   Resp("chain", "", compute_chain_hash(req[w].events),
                        req[w].events)]
    /\ req' = [req EXCEPT ![w] = Idle]
    /\ UNCHANGED <<traces, chunks, artifacts, blobs, docs, qa, now, idem>>

\* all_events.sort(key=seq); _validate_event_sequence(all_events) in process w
validate_compute(w) ==
    /\ req[w].op = "validate"
    /\ resp' = [resp EXCEPT ![w] =
                   Resp("validate", "",
                        validate_event_sequence(sort_by_seq(req[w].events)),
                        req[w].events)]
    /\ req' = [req EXCEPT ![w] = Idle]
    /\ UNCHANGED <<traces, chunks, artifacts, blobs, docs, qa, now, idem>>

FunctionNext ==
    \/ \E w \in Workers : chain_compute(w)
    \/ \E w \in Workers : validate_compute(w)

FunctionSpec == FunctionInit /\ [][FunctionNext]_vars

-----------------------------------------------------------------------------
(* The metrics of the document as a function of the event list *)

\* a list passed to the metrics holds at most MaxMetricLen events
MaxMetricLen == 4
\* client timestamps are 1..MaxClientTime
MaxClientTime == 2

\* What an event contributes to the metrics: its type and, for an edit, its file.
MetricKinds ==
    [type : {"file_edit"}, file_path : FilePaths]
        \cup [type : EventTypes \ {"file_edit"}, file_path : {NoPath}]

\* The event lists of length n that pass _validate_event_sequence once sorted:
\* n events that carry the seq values 0..n-1 in any order, each of any kind and
\* client time.
MetricInputs(n) ==
    {[i \in 1..n |-> [seq |-> seqs[i], ts_client_s |-> times[i],
                      type |-> kinds[i].type, file_path |-> kinds[i].file_path]] :
        seqs \in {f \in [1..n -> 0..n - 1] : \A i, j \in 1..n : f[i] = f[j] => i = j},
        times \in [1..n -> 1..MaxClientTime],
        kinds \in [1..n -> MetricKinds]}

MetricsInit ==
    /\ traces = [t \in {} |-> NewTrace]
    /\ chunks = {}
    /\ artifacts = <<>>
    /\ blobs = [n \in {} |-> <<>>]
    /\ docs = [t \in {} |-> <<>>]
    /\ qa = [queued |-> 0, running |-> 0, results |-> {}]
    /\ now = 1
    /\ \E n \in 0..MaxMetricLen : \E events \in MetricInputs(n) :
          req = [w \in Workers |->
                    IF w = SeqWorker THEN [op |-> "metrics", events |-> events]
                    ELSE Idle]
    /\ resp = [w \in Workers |-> NoResp]
    /\ idem = [k \in {} |-> <<>>]

\* all_events.sort(key=seq), then the metrics block of _build_final_trace and its
\* validation by the document schema
metrics_compute(w) ==
    /\ req[w].op = "metrics"
    /\ LET m == compute_metrics(sort_by_seq(req[w].events))
       IN  resp' = [resp EXCEPT ![w] =
                       Resp("metrics", "",
                            IF metrics_validate(m) THEN "success"
                                                   ELSE "validation_error",
                            [events |-> req[w].events, metrics |-> m])]
    /\ req' = [req EXCEPT ![w] = Idle]
    /\ UNCHANGED <<traces, chunks, artifacts, blobs, docs, qa, now, idem>>

MetricsNext == \E w \in Workers : metrics_compute(w)

MetricsSpec == MetricsInit /\ [][MetricsNext]_vars

-----------------------------------------------------------------------------
(* _process_artifacts as a function of the artifacts mapping *)

\* the artifacts mapping of a request holds at most MaxEntries entries
MaxEntries == 2

ArtifactKeys == {"workspace_snapshot", "stdout"}
\* the "type" of an entry that is a mapping; NoTag: the key is absent
TypeTags == {"test_report"}
NoTag == ""
\* the "event_id" of an entry that is a mapping; NoEventId: the key is absent
NoEventId == ""

\* The value of an entry: empty (None, "", {}), a value that is not a mapping
\* (raw), or a non-empty mapping with or without the keys content, type and
\* event_id.  The ArtifactInputs of the requests above name each entry by the
\* type it is stored under.
EntryValues ==
    [form : {"empty", "raw"}, content : {FALSE}, type : {NoTag},
     event_id : {NoEventId}]
        \cup [form : {"mapping"}, content : BOOLEAN, type : TypeTags \cup {NoTag},
              event_id : EventIds \cup {NoEventId}]

\* the mappings of n entries, in the order of their keys in the request
ArtifactMappings(n) ==
    {m \in [1..n -> [key : ArtifactKeys, value : EntryValues]] :
        \A i, j \in 1..n : m[i].key = m[j].key => i = j}

\* every entry stored under its mapping key
entry_type_by_key(entry) == entry.key

\* Lines 145-152: the type tag of a mapping with content, the key by default.
entry_type(entry) ==
    IF entry.value.form = "mapping" /\ entry.value.content
    THEN (IF entry.value.type # NoTag THEN entry.value.type ELSE entry.key)
    ELSE entry.key

\* Lines 145-152: the event_id of a mapping with content, None otherwise.
entry_event_id(entry) ==
    IF entry.value.form = "mapping" /\ entry.value.content
    THEN entry.value.event_id
    ELSE NoEventId

\* The loop of _process_artifacts: the rows added and counted, entry by entry.
RECURSIVE process_artifacts(_)
process_artifacts(entries) ==
    IF entries = <<>> THEN <<>>
    ELSE IF Head(entries).value.form = "empty"
         THEN process_artifacts(Tail(entries))
         ELSE <<[artifact_type |-> entry_type(Head(entries)),
                 event_id |-> entry_event_id(Head(entries))]>>
              \o process_artifacts(Tail(entries))

ArtifactInit ==
    /\ traces = [t \in {} |-> NewTrace]
    /\ chunks = {}
    /\ artifacts = <<>>
    /\ blobs = [n \in {} |-> <<>>]
    /\ docs = [t \in {} |-> <<>>]
    /\ qa = [queued |-> 0, running |-> 0, results |-> {}]
    /\ now = 1
    /\ \E n \in 0..MaxEntries : \E entries \in ArtifactMappings(n) :
          req = [w \in Workers |->
                    IF w = SeqWorker THEN [op |-> "artifacts", entries |-> entries]
                    ELSE Idle]
    /\ resp = [w \in Workers |-> NoResp]
    /\ idem = [k \in {} |-> <<>>]

\* _process_artifacts(trace_id, artifacts) in process w: the rows it adds and
\* the count it returns
artifacts_compute(w) ==
    /\ req[w].op = "artifacts"
    /\ LET rows == process_artifacts(req[w].entries)
       IN  resp' = [resp EXCEPT ![w] =
                       Resp("artifacts", "", "success",
                            [entries |-> req[w].entries, rows |-> rows,
                             artifacts_added |-> Len(rows)])]
    /\ req' = [req EXCEPT ![w] = Idle]
    /\ UNCHANGED <<traces, chunks, artifacts, blobs, docs, qa, now, idem>>

ArtifactNext == \E w \in Workers : artifacts_compute(w)

ArtifactSpec == ArtifactInit /\ [][ArtifactNext]_vars

-----------------------------------------------------------------------------
(* Properties *)

AllIdle == \A w \in Workers : req[w] = Idle

IngestOutcome(t, c, b) ==
    ingest_chunk_outcome(t, c, b.chunk_seq, b.events, b.artifacts)

\* the tables and buckets are left as they are
Preserved(out) ==
    /\ out.traces = traces
    /\ out.chunks = chunks
    /\ out.artifacts = artifacts
    /\ out.blobs = blobs
    /\ out.docs = docs

\* C1: for a trace that is not COMPLETED, an ingest call with a chunk_id that
\* already has a chunk row returns Duplicate, whatever events and artifacts it
\* carries, and leaves the trace row, the chunk rows, the artifact rows and the
\* stored chunk payloads as they were.
C1_DuplicateChunkIsAbsorbed ==
    \A t \in DOMAIN traces, c \in ChunkIds :
        (traces[t].status # COMPLETED /\ ChunkExists(c))
        => \A b \in IngestBodies :
              LET out == IngestOutcome(t, c, b)
              IN  out.result = "duplicate" /\ Preserved(out)

\* C1 witness: the last call answered Duplicate for a trace that holds events
\* and is not COMPLETED.
C1_Witness ==
    /\ resp[SeqWorker].op = "ingest"
    /\ resp[SeqWorker].result = "duplicate"
    /\ \E t \in DOMAIN traces :
          /\ traces[t].status # COMPLETED
          /\ traces[t].num_events > 0
          /\ resp[SeqWorker].trace = t

RECURSIVE SumEvents(_)
SumEvents(rows) ==
    IF rows = {} THEN 0
    ELSE LET c == CHOOSE x \in rows : TRUE
         IN  c.num_events + SumEvents(rows \ {c})

RowOrders(rows) ==
    LET n == Cardinality(rows)
    IN  {order \in [1..n -> rows] : \A c \in rows : \E i \in 1..n : order[i] = c}

\* the events of a chunk row as they were stamped when the chunk was ingested
stamped_events(c) ==
    LET data == blobs[c.storage_uri]
    IN  [i \in 1..Len(data.events) |-> stamp(data.events[i], data.received_at)]

RECURSIVE stamped_concat(_)
stamped_concat(order) ==
    IF order = <<>> THEN <<>>
    ELSE stamped_events(Head(order)) \o stamped_concat(Tail(order))

\* the digests of the serial executions of the trace's chunks
SerialChains(t) ==
    {compute_chain_hash(stamped_concat(order)) : order \in RowOrders(ChunksOf(t))}

\* every ingest call that got past the duplicate check has committed its row
NoFailedIngest == Cardinality(chunks) = now - 1

\* C2: when ingest calls with distinct chunk ids overlap and all return success,
\* no counter increment and no hash-chain extension is lost: once no call is in
\* flight, num_events is the sum over the trace's chunk rows and the digest is
\* that of the chunks applied one after the other in some order.
C2_NoLostUpdate ==
    (AllIdle /\ NoFailedIngest) =>
        \A t \in DOMAIN traces :
            /\ traces[t].num_events = SumEvents(ChunksOf(t))
            /\ traces[t].event_hash_chain \in SerialChains(t)

\* C3: once finalize has succeeded for a trace (its final_trace_uri is set),
\* every later ingest call for it fails with InvalidState and changes nothing,
\* whatever its status has become.
C3_IngestRejectedAfterFinalize ==
    \A t \in DOMAIN traces, c \in ChunkIds :
        traces[t].final_trace_uri # NoUri
        => \A b \in IngestBodies :
              LET out == IngestOutcome(t, c, b)
              IN  out.result = "invalid_state" /\ Preserved(out)

AllowedTransitions ==
    {<<CREATED, INGESTING>>, <<INGESTING, INGESTING>>, <<INGESTING, COMPLETED>>,
     <<COMPLETED, VALIDATING>>, <<VALIDATING, VALIDATED>>, <<VALIDATING, FAILED>>}

\* C4: the status of a trace changes only along CREATED -> INGESTING ->
\* COMPLETED -> VALIDATING -> VALIDATED | FAILED.
C4_StatusTransitions ==
    [][\A t \in DOMAIN traces :
         \/ traces'[t].status = traces[t].status
         \/ <<traces[t].status, traces'[t].status>> \in AllowedTransitions]_vars

\* C5: after the first successful finalize (final_trace_uri set, document
\* stored) no step rebuilds or overwrites the document or changes
\* final_trace_uri or completed_at.
C5_DocumentProducedOnce ==
    [][\A t \in DOMAIN traces :
         traces[t].final_trace_uri # NoUri
         => /\ docs'[t] = docs[t]
            /\ traces'[t].final_trace_uri = traces[t].final_trace_uri
            /\ traces'[t].completed_at = traces[t].completed_at]_vars

\* C6: finalize on a trace whose status is COMPLETED returns AlreadyCompleted and
\* leaves the stored document and the trace row (final_trace_uri, completed_at,
\* status, num_events, last_seq, event_hash_chain) unchanged.
C6_FinalizeCompletedIsNoop ==
    \A t \in DOMAIN traces :
        traces[t].status = COMPLETED
        => \A order \in FinalizeOrders(t), snapshot \in FinalizeSnapshots(t) :
              /\ finalize_trace_outcome(t, order, snapshot).result
                    = "already_completed"
              /\ Preserved(finalize_trace_outcome(t, order, snapshot))

\* C6 witness: finalize has answered AlreadyCompleted for a COMPLETED trace that
\* has its document.
C6_Witness ==
    /\ resp[SeqWorker].op = "finalize"
    /\ resp[SeqWorker].result = "already_completed"
    /\ \E t \in DOMAIN traces :
          /\ traces[t].status = COMPLETED
          /\ t \in DOMAIN docs
          /\ resp[SeqWorker].trace = t

\* The events of the trace's chunk rows, one by one: a chunk row and a place in
\* its stored payload.
Occurrences(t) ==
    UNION {{<<c, i>> : i \in DOMAIN blobs[c.storage_uri].events} : c \in ChunksOf(t)}

EventAt(o) == blobs[o[1].storage_uri].events[o[2]]

IdRepeats(t) ==
    \E o1, o2 \in Occurrences(t) : o1 # o2 /\ EventAt(o1).id = EventAt(o2).id

SeqRepeats(t) ==
    \E o1, o2 \in Occurrences(t) : o1 # o2 /\ EventAt(o1).seq = EventAt(o2).seq

SeqSharedByTwoIds(t) ==
    \E o1, o2 \in Occurrences(t) :
        EventAt(o1).id # EventAt(o2).id /\ EventAt(o1).seq = EventAt(o2).seq

StrictlyIncreasing(events) ==
    \A i \in 1..Len(events) - 1 : events[i].seq < events[i + 1].seq

\* the list holds every event as often as the trace's chunk payloads do
SameEventsAsChunks(events, t) ==
    \A e \in ClientEvents :
        Cardinality({i \in DOMAIN events : events[i] = e})
            = Cardinality({o \in Occurrences(t) : EventAt(o) = e})

FinalizeSucceeded(t) ==
    /\ resp[SeqWorker].op = "finalize"
    /\ resp[SeqWorker].result = "success"
    /\ resp[SeqWorker].trace = t
    /\ t \in DOMAIN docs

\* result of finalize for every answer the two queries may give
FinalizeResults(t) ==
    {finalize_trace_outcome(t, order, snapshot).result :
        order \in FinalizeOrders(t), snapshot \in FinalizeSnapshots(t)}

\* C7: when finalize succeeds the document's event list holds exactly the events
\* of all chunk rows of the trace, each once, in strictly increasing seq; and
\* chunks whose events are well formed with distinct ids and seqs finalize to
\* that list whatever their chunk_seq values and the order they arrived in.
C7_DocumentEventsMergedBySeq ==
    \A t \in DOMAIN traces :
        \A order \in FinalizeOrders(t), snapshot \in FinalizeSnapshots(t) :
            LET out == finalize_trace_outcome(t, order, snapshot)
            IN  /\ out.result = "success" =>
                      /\ StrictlyIncreasing(out.docs[t].events)
                      /\ SameEventsAsChunks(out.docs[t].events, t)
                /\ ( /\ traces[t].status # COMPLETED
                     /\ ChunksOf(t) # {}
                     /\ ~IdRepeats(t) /\ ~SeqRepeats(t)
                     /\ \A o \in Occurrences(t) : parses_as_trace_event(EventAt(o)) )
                   => out.result = "success"

\* C7 witness: finalize has succeeded for a trace of two chunks where the chunk
\* that arrived first, with the lower chunk_seq, holds the higher seq.
C7_Witness ==
    \E t \in DOMAIN traces :
        /\ FinalizeSucceeded(t)
        /\ Len(docs[t].events) = 2
        /\ \E c1, c2 \in ChunksOf(t) :
              /\ blobs[c1.storage_uri].received_at < blobs[c2.storage_uri].received_at
              /\ c1.chunk_seq < c2.chunk_seq
              /\ blobs[c1.storage_uri].events # <<>>
              /\ blobs[c2.storage_uri].events # <<>>
              /\ blobs[c1.storage_uri].events[1].seq > blobs[c2.storage_uri].events[1].seq

\* C8: integrity violations are not repaired: when finalize has just stored the
\* document of a trace, the events of the trace's chunk rows have pairwise
\* distinct ids and pairwise distinct seqs, and the document holds every one of
\* them (none dropped, none merged).
C8_NoSilentRepair ==
    \A t \in DOMAIN traces :
        FinalizeSucceeded(t) =>
            /\ ~IdRepeats(t)
            /\ ~SeqRepeats(t)
            /\ Len(docs[t].events) = Cardinality(Occurrences(t))
            /\ \A o \in Occurrences(t) :
                  \E i \in DOMAIN docs[t].events : docs[t].events[i] = EventAt(o)

\* C8 witness: finalize has just stored a document of several events.
C8_Witness ==
    \E t \in DOMAIN traces :
        /\ FinalizeSucceeded(t)
        /\ Cardinality(Occurrences(t)) >= 2
        /\ Cardinality(ChunksOf(t)) = 1

\* C9 as stated: finalize fails with DuplicateEventId whenever an event id occurs
\* more than once among the events of the trace's chunks.
C9_AsStated ==
    \A t \in DOMAIN traces :
        IdRepeats(t) => FinalizeResults(t) = {"duplicate_event_id"}

\* C9: finalize fails whenever an event id occurs more than once among the
\* events of the trace's chunks: with DuplicateEventId if no two events with
\* different ids have the same seq, and otherwise with DuplicateEventId or
\* OutOfOrder, whichever the scan of the seq-sorted list meets first.
C9_RepeatedIdFailsFinalize ==
    \A t \in DOMAIN traces :
        IdRepeats(t) =>
            /\ FinalizeResults(t) \subseteq {"duplicate_event_id", "out_of_order"}
            /\ ~SeqSharedByTwoIds(t) => FinalizeResults(t) = {"duplicate_event_id"}

\* C9 witness: finalize has failed with DuplicateEventId for a trace whose two
\* chunks each hold an event with the same id.
C9_Witness ==
    /\ resp[SeqWorker].op = "finalize"
    /\ resp[SeqWorker].result = "duplicate_event_id"
    /\ \E t \in DOMAIN traces :
          /\ resp[SeqWorker].trace = t
          /\ \E o1, o2 \in Occurrences(t) :
                o1[1] # o2[1] /\ EventAt(o1).id = EventAt(o2).id

\* C10 as stated: finalize fails with OutOfOrder whenever the merged list holds
\* the same seq twice under different event ids.
C10_AsStated ==
    \A t \in DOMAIN traces :
        SeqSharedByTwoIds(t) => FinalizeResults(t) = {"out_of_order"}

\* C10: finalize fails whenever the merged list holds the same seq twice under
\* different event ids, an equal seq never being accepted: with OutOfOrder if no
\* event id occurs twice, and otherwise with OutOfOrder or DuplicateEventId,
\* whichever the scan of the seq-sorted list meets first.
C10_RepeatedSeqFailsFinalize ==
    \A t \in DOMAIN traces :
        SeqSharedByTwoIds(t) =>
            /\ FinalizeResults(t) \subseteq {"duplicate_event_id", "out_of_order"}
            /\ ~IdRepeats(t) => FinalizeResults(t) = {"out_of_order"}

\* C10 witness: finalize has failed with OutOfOrder for a trace whose events have
\* distinct ids and two of them the same seq.
C10_Witness ==
    /\ resp[SeqWorker].op = "finalize"
    /\ resp[SeqWorker].result = "out_of_order"
    /\ \E t \in DOMAIN traces :
          /\ resp[SeqWorker].trace = t
          /\ SeqSharedByTwoIds(t)
          /\ ~IdRepeats(t)

DistinctIds(events) ==
    \A i, j \in DOMAIN events : i # j => events[i].id # events[j].id

DistinctSeqs(events) ==
    \A i, j \in DOMAIN events : i # j => events[i].seq # events[j].seq

RECURSIVE FoldExtend(_, _)
FoldExtend(events, n) ==
    IF n = 0 THEN NoHash
    ELSE compute_event_hash(events[n], FoldExtend(events, n - 1))

OneFieldChanged(e) ==
    {x \in FunctionEvents :
        \/ x.id # e.id /\ x.seq = e.seq /\ x.ts_server_s = e.ts_server_s
        \/ x.id = e.id /\ x.seq # e.seq /\ x.ts_server_s = e.ts_server_s
        \/ x.id = e.id /\ x.seq = e.seq /\ x.ts_server_s # e.ts_server_s}

Tampered(events) ==
    UNION {{[events EXCEPT ![i] = x] : x \in OneFieldChanged(events[i])}
              \cup {[events EXCEPT ![i] = events[j], ![j] = events[i]] :
                       j \in {k \in DOMAIN events : events[k] # events[i]}} :
           i \in DOMAIN events}

\* C18: tamper sensitivity: changing one field of one event of a list, or
\* swapping two different events, changes the final chain digest (the keyed hash
\* taken to be free of collisions).
C18_TamperSensitive ==
    \A w \in Workers :
        resp[w].op = "chain" =>
            \A tampered \in Tampered(resp[w].info) :
                compute_chain_hash(tampered) # resp[w].result

\* C18 witness: the digest of two different events has been computed.
C18_Witness ==
    \E w \in Workers :
        /\ resp[w].op = "chain"
        /\ Len(resp[w].info) = 2
        /\ resp[w].info[1] # resp[w].info[2]

\* the trace's chunk rows in the order their requests were received
AcceptanceOrder(t) ==
    CHOOSE order \in RowOrders(ChunksOf(t)) :
        \A i \in 1..Len(order) - 1 :
            blobs[order[i].storage_uri].received_at
                <= blobs[order[i + 1].storage_uri].received_at

\* the events of the chunk rows as the stored payloads hold them
RECURSIVE stored_concat(_)
stored_concat(order) ==
    IF order = <<>> THEN <<>>
    ELSE blobs[Head(order).storage_uri].events \o stored_concat(Tail(order))

\* C13: after any sequence of ingest calls that do not overlap, the trace's
\* event_hash_chain is chain(E), E being the events as stamped at ingestion, chunk
\* after chunk in acceptance order and in submission order within a chunk; none
\* when no event was ingested.
C13_ChainFollowsAcceptanceOrder ==
    \A t \in DOMAIN traces :
        traces[t].event_hash_chain
            = compute_chain_hash(stamped_concat(AcceptanceOrder(t)))

\* C13 witness: a trace of two chunks, one of them submitted with its events in
\* descending seq, has a digest.
C13_Witness ==
    \E t \in DOMAIN traces :
        /\ Cardinality(ChunksOf(t)) = 2
        /\ traces[t].event_hash_chain # NoHash
        /\ \E c \in ChunksOf(t) :
              /\ Len(blobs[c.storage_uri].events) = 2
              /\ blobs[c.storage_uri].events[1].seq > blobs[c.storage_uri].events[2].seq

\* C14: chain() applied to the events exactly as the raw chunk payloads store
\* them, in ingestion order, yields the trace's event_hash_chain.
C14_ChainFromStoredChunks ==
    \A t \in DOMAIN traces :
        traces[t].event_hash_chain
            = compute_chain_hash(stored_concat(AcceptanceOrder(t)))

\* C15: the ts_server_s of every ingested event, in the stored chunk payload and
\* in the document, is the value the server stamped at ingestion.
C15_StoredTimestampIsServers ==
    /\ \A c \in chunks :
          \A i \in DOMAIN blobs[c.storage_uri].events :
              blobs[c.storage_uri].events[i].ts_server_s
                  = stamped_events(c)[i].ts_server_s
    /\ \A t \in DOMAIN docs :
          \A i \in DOMAIN docs[t].events :
              \E c \in ChunksOf(t) : \E j \in DOMAIN stamped_events(c) :
                  docs[t].events[i] = stamped_events(c)[j]

\* C16: finalize leaves event_hash_chain as it is, and the digest it puts into the
\* document is that digest, accumulated in arrival order during ingestion, while
\* the document's events are in seq order.
C16_FinalizeKeepsArrivalDigest ==
    \A t \in DOMAIN traces :
        \A order \in FinalizeOrders(t), snapshot \in FinalizeSnapshots(t) :
            LET out == finalize_trace_outcome(t, order, snapshot)
            IN  out.result = "success" =>
                    /\ out.traces[t].event_hash_chain = traces[t].event_hash_chain
                    /\ out.docs[t].integrity.event_hash_chain
                          = traces[t].event_hash_chain
                    /\ out.docs[t].integrity.event_hash_chain
                          = compute_chain_hash(stamped_concat(AcceptanceOrder(t)))
                    /\ StrictlyIncreasing(out.docs[t].events)

\* C16 witness: finalize has succeeded for a trace whose chunks arrived out of
\* seq order; the document lists the events by seq and carries the trace's digest.
C16_Witness ==
    \E t \in DOMAIN traces :
        /\ FinalizeSucceeded(t)
        /\ Len(docs[t].events) = 2
        /\ docs[t].events # stored_concat(AcceptanceOrder(t))
        /\ docs[t].integrity.event_hash_chain = traces[t].event_hash_chain
        /\ traces[t].event_hash_chain # NoHash

\* C12: ingestion is all-or-nothing: when a step of ingest after the duplicate
\* check raises (chunk upload, artifact upload, hash chain, the commit), the
\* trace's num_events, last_seq, event_hash_chain and status are as before, no
\* chunk row and no artifact row of the chunk is visible, and an ingest with the
\* same chunk_id is then a novel chunk again.
C12_IngestAllOrNothing ==
    \A t \in DOMAIN traces, c \in ChunkIds :
        ingest_check(t, c) = "novel" =>
            \A b \in FaultBodies : \A step \in FailSteps(b.events, b.artifacts) :
                LET out == ingest_failure_outcome(t, c, b.chunk_seq, b.events,
                                                  b.artifacts, step)
                IN  /\ out.result = "error"
                    /\ out.traces = traces
                    /\ out.chunks = chunks
                    /\ out.artifacts = artifacts
                    /\ \A row \in out.chunks : row.id # c
                    /\ out.traces[t].status # COMPLETED

\* C12 witness: an ingest call has failed after its chunk was uploaded, for a
\* trace that holds events of an earlier chunk: the payload lies in the bucket
\* and no chunk row points to it.
C12_Witness ==
    /\ resp[SeqWorker].op = "ingest"
    /\ resp[SeqWorker].result = "error"
    /\ \E t \in DOMAIN traces :
          /\ resp[SeqWorker].trace = t
          /\ traces[t].num_events > 0
          /\ \E n \in DOMAIN blobs :
                /\ blobs[n].trace_id = t
                /\ ~ChunkExists(blobs[n].chunk_id)
                /\ blobs[n].events # <<>>

HandledIngest(t, k, c, b) ==
    ingest_events_outcome(t, k, c, b.chunk_seq, b.events, b.artifacts)

\* C19: an ingest request whose idempotency key is recorded and unexpired for the
\* same trace and the ingest endpoint is answered with the stored response body
\* and ingest is not invoked: no chunk row, artifact, counter, digest, status or
\* stored payload changes, whatever chunk_id and events the request carries.
C19_KeyReplaysStoredResponse ==
    \A k \in DOMAIN idem, c \in ChunkIds, b \in IdemBodies :
        ~idem[k].expired =>
            LET h == HandledIngest(idem[k].trace_id, k, c, b)
            IN  /\ h.result = idem[k].response_body.result
                /\ h.info = idem[k].response_body.info
                /\ Preserved(h.db)
                /\ h.idem = idem

\* C19 witness: the last response is a replay: it reports success with a total
\* the trace has since moved past, under a key that is recorded and unexpired.
C19_Witness ==
    /\ resp[SeqWorker].op = "ingest"
    /\ resp[SeqWorker].result = "success"
    /\ \E t \in DOMAIN traces :
          /\ resp[SeqWorker].trace = t
          /\ resp[SeqWorker].info.total_events < traces[t].num_events
          /\ \E k \in DOMAIN idem :
                /\ idem[k].trace_id = t
                /\ ~idem[k].expired
                /\ idem[k].response_body.info = resp[SeqWorker].info

\* C20: idempotency keys are scoped to (trace, endpoint): an ingest request for
\* a trace that carries a key recorded for another trace is processed as a fresh
\* request: its novel chunk is ingested and the response is that ingestion's
\* success.
C20_KeyScopedToTrace ==
    \A k \in DOMAIN idem, t \in DOMAIN traces, c \in ChunkIds, b \in IdemBodies :
        (idem[k].trace_id # t /\ ingest_check(t, c) = "novel") =>
            LET h == HandledIngest(t, k, c, b)
            IN  /\ h.result = "success"
                /\ \E row \in h.db.chunks : row.id = c /\ row.trace_id = t

-----------------------------------------------------------------------------
(* Finalization of a trace without chunks *)

FinalizeOutcomes(t) ==
    {finalize_trace_outcome(t, order, snapshot) :
        order \in FinalizeOrders(t), snapshot \in FinalizeSnapshots(t)}

\* C21: finalize of an existing trace that has no chunk row fails with NoChunks,
\* stores no document and leaves the trace row (status, final_trace_uri,
\* completed_at and the rest), the tables and the buckets as they were.
C21_NoChunksFails ==
    \A t \in DOMAIN traces :
        ChunksOf(t) = {} =>
            \A out \in FinalizeOutcomes(t) :
                /\ out.result = "no_chunks"
                /\ finalize_raises(out.result)
                /\ Preserved(out)

\* C21 witness: the last call was a finalize of an existing trace without chunk
\* rows, and it answered NoChunks.
C21_Witness ==
    /\ resp[SeqWorker].op = "finalize"
    /\ resp[SeqWorker].result = "no_chunks"
    /\ \E t \in DOMAIN traces :
          /\ resp[SeqWorker].trace = t
          /\ ChunksOf(t) = {}
          /\ t \notin DOMAIN docs
          /\ traces[t].status = CREATED

-----------------------------------------------------------------------------
(* Metrics of the document *)

\* how many events of the list have the type
NumOfType(events, type) == Cardinality({i \in DOMAIN events : events[i].type = type})

\* the client timestamp of the event of the list with the given seq
TimeOfSeq(events, seq) ==
    events[CHOOSE i \in DOMAIN events : events[i].seq = seq].ts_client_s

LowestSeq(events) ==
    CHOOSE s \in {events[i].seq : i \in DOMAIN events} :
        \A i \in DOMAIN events : s <= events[i].seq

HighestSeq(events) ==
    CHOOSE s \in {events[i].seq : i \in DOMAIN events} :
        \A i \in DOMAIN events : s >= events[i].seq

\* two file_edit events on "a.py", one cmd_run and one test_run, in some order
IsExampleList(events) ==
    /\ Len(events) = 4
    /\ NumOfType(events, "cmd_run") = 1
    /\ NumOfType(events, "test_run") = 1
    /\ NumOfType(events, "file_edit") = 2
    /\ \A i \in DOMAIN events :
          events[i].type = "file_edit" => events[i].file_path = "a.py"

\* C22: the metrics of a document are those of its events taken in seq order:
\* num_events is their number, num_edits, num_cmds and num_test_runs are the
\* numbers of events of type file_edit, cmd_run and test_run, files_touched is
\* the number of distinct file_path values of the file_edit events, duration_s
\* is the client timestamp of the event of highest seq minus that of the event
\* of lowest seq (0 without events); two file_edit on "a.py", one cmd_run and one
\* test_run give 2, 1, 1 and files_touched 1.
C22_DocumentMetrics ==
    \A w \in Workers :
        (resp[w].op = "metrics" /\ resp[w].result = "success") =>
            LET events == resp[w].info.events
                m == resp[w].info.metrics
            IN  /\ m.num_events = Len(events)
                /\ m.num_edits = NumOfType(events, "file_edit")
                /\ m.num_cmds = NumOfType(events, "cmd_run")
                /\ m.num_test_runs = NumOfType(events, "test_run")
                /\ m.files_touched =
                      Cardinality({p \in FilePaths :
                          \E i \in DOMAIN events :
                              events[i].type = "file_edit" /\ events[i].file_path = p})
                /\ m.duration_s =
                      IF events = <<>> THEN 0
                      ELSE TimeOfSeq(events, HighestSeq(events))
                               - TimeOfSeq(events, LowestSeq(events))
                /\ IsExampleList(events) =>
                      /\ m.num_edits = 2
                      /\ m.num_cmds = 1
                      /\ m.num_test_runs = 1
                      /\ m.files_touched = 1

\* C22 witness: the metrics were computed for the list of the example, sent out
\* of seq order and over a positive time span.
C22_Witness ==
    /\ resp[SeqWorker].op = "metrics"
    /\ resp[SeqWorker].result = "success"
    /\ IsExampleList(resp[SeqWorker].info.events)
    /\ resp[SeqWorker].info.events[1].seq > resp[SeqWorker].info.events[2].seq
    /\ resp[SeqWorker].info.metrics.files_touched = 1
    /\ resp[SeqWorker].info.metrics.duration_s > 0

-----------------------------------------------------------------------------
(* The workspace snapshot of the document *)

\* the snapshot row of the trace that was ingested last (artifact rows are
\* numbered in the order of their insertion)
LatestSnapshot(t) ==
    CHOOSE a \in snapshots_of(t) : \A other \in snapshots_of(t) : other <= a

\* C23: the document of a successful finalize refers to the workspace snapshot
\* artifact of the trace that was ingested last, and has no artifacts block when
\* the trace has no such artifact.
C23_LatestSnapshotAttached ==
    \A t \in DOMAIN traces :
        \A out \in FinalizeOutcomes(t) :
            out.result = "success" =>
                out.docs[final_uri(t)].artifacts =
                    IF snapshots_of(t) = {} THEN NoSnapshot ELSE LatestSnapshot(t)

-----------------------------------------------------------------------------
(* The trace row *)

\* C24: the document pointer and the completion timestamp are set exactly while
\* the status is COMPLETED, VALIDATING, VALIDATED or FAILED: a CREATED or
\* INGESTING trace has neither, a trace in any other status has both.
C24_CompletionFieldsMatchStatus ==
    \A t \in DOMAIN traces :
        /\ (traces[t].final_trace_uri # NoUri) <=> (traces[t].completed_at # NoTime)
        /\ (traces[t].final_trace_uri # NoUri)
              <=> traces[t].status \in {COMPLETED, VALIDATING, VALIDATED, FAILED}

\* the seq values of the events of the trace's chunk rows
IngestedSeqs(t) ==
    UNION {{blobs[c.storage_uri].events[i].seq :
               i \in DOMAIN blobs[c.storage_uri].events} : c \in ChunksOf(t)}

LargestIngestedSeq(t) ==
    IF IngestedSeqs(t) = {} THEN -1
    ELSE CHOOSE s \in IngestedSeqs(t) : \A other \in IngestedSeqs(t) : other <= s

\* C25: last_seq is the largest seq among the events of the chunks ingested with
\* success (-1 without any), once every call has committed; and no step of any
\* operation lowers the last_seq of a trace.
C25_LastSeqIsLargestAndMonotone ==
    /\ [](\A t \in DOMAIN traces :
            (AllIdle /\ NoFailedIngest) => traces[t].last_seq = LargestIngestedSeq(t))
    /\ [][\A t \in DOMAIN traces : traces'[t].last_seq >= traces[t].last_seq]_vars

\* C26: with calls that do not overlap, the num_events of a trace is the sum of
\* the num_events of its chunk rows, and a successful finalize returns that
\* value as num_events and writes it into the metrics of the document.
C26_EventCountsAgree ==
    \A t \in DOMAIN traces :
        /\ traces[t].num_events = SumEvents(ChunksOf(t))
        /\ \A out \in FinalizeOutcomes(t) :
              out.result = "success" =>
                  /\ out.info.num_events = SumEvents(ChunksOf(t))
                  /\ out.docs[final_uri(t)].metrics.num_events = traces[t].num_events

\* C26 witness: finalize has just succeeded for a trace with two chunk rows that
\* hold events, and returned the trace's count.
C26_Witness ==
    /\ resp[SeqWorker].op = "finalize"
    /\ resp[SeqWorker].result = "success"
    /\ \E t \in DOMAIN traces :
          /\ resp[SeqWorker].trace = t
          /\ Cardinality({c \in ChunksOf(t) : c.num_events > 0}) = 2
          /\ resp[SeqWorker].info.num_events = traces[t].num_events
          /\ docs[final_uri(t)].metrics.num_events = SumEvents(ChunksOf(t))

-----------------------------------------------------------------------------
(* The response of a successful ingest *)

\* the entries of an artifacts mapping that are not empty
NonEmptyEntries(arts) == {i \in DOMAIN arts : arts[i] # EmptyEntry}

\* C27: a successful ingest of a novel chunk returns events_added = the number
\* of events of the chunk, artifacts_added = the number of non-empty artifact
\* entries, each stored as one artifact row, and total_events = the num_events
\* of the trace before the call plus events_added; it adds exactly one chunk
\* row, that of the chunk, and leaves the trace INGESTING.
C27_IngestSummary ==
    \A t \in DOMAIN traces, c \in ChunkIds :
        ingest_check(t, c) = "novel" =>
            \A b \in FaultBodies :
                LET out == IngestOutcome(t, c, b)
                IN  /\ out.result = "success"
                    /\ out.info.events_added = Len(b.events)
                    /\ out.info.artifacts_added = Cardinality(NonEmptyEntries(b.artifacts))
                    /\ Len(out.artifacts) = Len(artifacts) + out.info.artifacts_added
                    /\ out.info.total_events = traces[t].num_events + Len(b.events)
                    /\ out.traces[t].num_events = out.info.total_events
                    /\ chunks \subseteq out.chunks
                    /\ Cardinality(out.chunks \ chunks) = 1
                    /\ \A row \in out.chunks \ chunks : row.id = c /\ row.trace_id = t
                    /\ out.traces[t].status = INGESTING

\* C27 witness: the last call ingested a second chunk with one event and an
\* artifacts mapping of one empty and one non-empty entry, and reported one
\* artifact and a total above the events it added.
C27_Witness ==
    /\ resp[SeqWorker].op = "ingest"
    /\ resp[SeqWorker].result = "success"
    /\ resp[SeqWorker].info.events_added = 1
    /\ resp[SeqWorker].info.artifacts_added = 1
    /\ resp[SeqWorker].info.total_events = 2
    /\ Len(artifacts) = 1
    /\ \E row \in chunks :
          /\ row.trace_id = resp[SeqWorker].trace
          /\ blobs[row.storage_uri].artifacts = <<EmptyEntry, "workspace_snapshot">>
          /\ blobs[row.storage_uri].received_at = now - 1

-----------------------------------------------------------------------------
(* Retries of a stored chunk *)

\* C28: an ingest call for a trace with a chunk_id that has a chunk row of that
\* trace returns Duplicate in every status of the trace, COMPLETED included.
C28_RetryAlwaysDuplicate ==
    \A t \in DOMAIN traces, c \in ChunkIds :
        (\E row \in ChunksOf(t) : row.id = c) =>
            \A b \in BodiesFor(t, c, IngestBodies) :
                IngestOutcome(t, c, b).result = "duplicate"

-----------------------------------------------------------------------------
(* Failing finalize calls *)

\* the outcome leaves the columns of the trace row as they are, and the trace
\* is not COMPLETED
TraceRowKeptOpen(out, t) ==
    /\ DOMAIN out.traces = DOMAIN traces
    /\ t \in DOMAIN traces =>
          /\ out.traces[t].status = traces[t].status
          /\ out.traces[t].final_trace_uri = traces[t].final_trace_uri
          /\ out.traces[t].completed_at = traces[t].completed_at
          /\ out.traces[t].num_events = traces[t].num_events
          /\ out.traces[t].last_seq = traces[t].last_seq
          /\ out.traces[t].event_hash_chain = traces[t].event_hash_chain
          /\ out.traces[t].status # COMPLETED

\* C30: a finalize call that fails - NotFound, NoChunks, DuplicateEventId,
\* OutOfOrder, the document rejected by its schema, the upload of the document
\* or the commit raising - leaves status, final_trace_uri, completed_at,
\* num_events, last_seq and event_hash_chain of the trace as they were, and the
\* trace is not COMPLETED afterwards: ingest still accepts chunks for it.
C30_FailingFinalizeChangesNothing ==
    \A t \in TraceIds :
        \A order \in FinalizeOrders(t), snapshot \in FinalizeSnapshots(t) :
            LET out == finalize_trace_outcome(t, order, snapshot)
            IN  /\ finalize_raises(out.result) => TraceRowKeptOpen(out, t)
                /\ out.result = "success" =>
                      \A step \in FinalizeFailSteps :
                          LET failed == finalize_failure_outcome(t, order, snapshot, step)
                          IN  /\ finalize_raises(failed.result)
                              /\ TraceRowKeptOpen(failed, t)

\* C30 witness: the last call was a finalize that raised at its commit, after
\* the document was uploaded, for a trace with events: the trace is INGESTING,
\* without pointer and timestamp.
C30_Witness ==
    /\ resp[SeqWorker].op = "finalize"
    /\ resp[SeqWorker].result = "error"
    /\ \E t \in DOMAIN traces :
          /\ resp[SeqWorker].trace = t
          /\ t \in DOMAIN docs
          /\ traces[t].num_events > 0
          /\ traces[t].status = INGESTING
          /\ traces[t].final_trace_uri = NoUri
          /\ traces[t].completed_at = NoTime

-----------------------------------------------------------------------------
(* Chunk ids across traces *)

\* C29: an ingest call for a trace with a chunk_id whose chunk row belongs to
\* another trace returns Duplicate and leaves every table and bucket as it was:
\* no chunk row for the trace, its status, counters and digest unchanged, its
\* events stored nowhere.
C29_ChunkIdentityIsGlobal ==
    \A a \in DOMAIN traces, b \in DOMAIN traces, c \in ChunkIds :
        (a # b /\ \E row \in ChunksOf(a) : row.id = c) =>
            \A body \in BodiesFor(b, c, IdemBodies) :
                LET out == IngestOutcome(b, c, body)
                IN  /\ out.result = "duplicate"
                    /\ Preserved(out)

-----------------------------------------------------------------------------
(* Integrity failures of finalize *)

\* the last call was a finalize of the trace that failed its integrity check
IntegrityFailure(t) ==
    /\ resp[SeqWorker].op = "finalize"
    /\ resp[SeqWorker].trace = t
    /\ resp[SeqWorker].result \in {"duplicate_event_id", "out_of_order"}

\* the trace is not COMPLETED and no finalize of it can succeed
CannotComplete(t) ==
    /\ t \in DOMAIN traces
    /\ traces[t].status # COMPLETED
    /\ \A out \in FinalizeOutcomes(t) : finalize_raises(out.result)

\* C31: once a finalize of a trace has failed with DuplicateEventId or
\* OutOfOrder, then from that state on, whatever chunks are ingested, every
\* finalize of the trace fails and the trace is never COMPLETED.
C31_IntegrityFailureIsPermanent ==
    \A t \in TraceIds : [](IntegrityFailure(t) => []CannotComplete(t))

\* C31 witness: a finalize has failed its integrity check for a trace into which
\* a further chunk was ingested after the events in conflict, and the last
\* finalize failed again.
C31_Witness ==
    \E t \in DOMAIN traces :
        /\ IntegrityFailure(t)
        /\ \E c \in ChunksOf(t) :
              /\ blobs[c.storage_uri].events # <<>>
              /\ \E a, b \in ChunksOf(t) \ {c} :
                    /\ blobs[a.storage_uri].received_at < blobs[c.storage_uri].received_at
                    /\ blobs[b.storage_uri].received_at < blobs[c.storage_uri].received_at
                    /\ \E i \in DOMAIN blobs[a.storage_uri].events,
                       j \in DOMAIN blobs[b.storage_uri].events :
                        /\ <<a, i>> # <<b, j>>
                        /\ \/ blobs[a.storage_uri].events[i].id
                                = blobs[b.storage_uri].events[j].id
                           \/ blobs[a.storage_uri].events[i].seq
                                = blobs[b.storage_uri].events[j].seq

-----------------------------------------------------------------------------
(* Finalize and ingest calls that overlap *)

\* every event of the trace's chunk rows is in the document of the trace
ChunksInDocument(t) ==
    \A o \in Occurrences(t) :
        \E i \in DOMAIN docs[final_uri(t)].events :
            docs[final_uri(t)].events[i].id = EventAt(o).id
            /\ docs[final_uri(t)].events[i].seq = EventAt(o).seq

\* C32: however a finalize call and ingest calls on a trace interleave, the
\* events of every chunk whose ingest returned success are in the document of
\* the trace, and no commit of an ingest moves the status from COMPLETED to
\* INGESTING.
C32_FinalizeIngestInterleaving ==
    /\ [](\A t \in DOMAIN traces :
            final_uri(t) \in DOMAIN docs => ChunksInDocument(t))
    /\ [][\A t \in DOMAIN traces :
            traces[t].status = COMPLETED => traces'[t].status # INGESTING]_vars

-----------------------------------------------------------------------------
(* Ingest calls that overlap and carry the same chunk_id *)

\* the ids and seqs of an event list
IdsAndSeqs(events) == [i \in DOMAIN events |-> <<events[i].id, events[i].seq>>]

\* the ids and seqs of the events a digest was chained over
ChainedIdsAndSeqs(hash) == [i \in DOMAIN hash |-> <<hash[i][1], hash[i][2]>>]

\* C33: however two ingest calls with the same chunk_id interleave, the chunk is
\* applied at most once - one chunk row of that id, and while the trace has this
\* one chunk row its num_events and digest are those of one payload - and the
\* payload stored at the row's storage_uri holds the events that were chained.
C33_SameChunkIdAppliedOnce ==
    /\ \A c1, c2 \in chunks : c1.id = c2.id => c1 = c2
    /\ \A t \in DOMAIN traces : \A c \in ChunksOf(t) :
          ChunksOf(t) = {c} =>
              /\ traces[t].num_events = c.num_events
              /\ Len(traces[t].event_hash_chain) = c.num_events
              /\ IdsAndSeqs(blobs[c.storage_uri].events)
                    = ChainedIdsAndSeqs(traces[t].event_hash_chain)

-----------------------------------------------------------------------------
(* Chunks without events *)

\* the trace has chunk rows and none of them holds an event
OnlyEmptyChunks(t) ==
    /\ ChunksOf(t) # {}
    /\ \A c \in ChunksOf(t) : blobs[c.storage_uri].events = <<>>

\* C34: the ingest of a novel chunk without events adds the chunk row, sets the
\* status INGESTING and leaves num_events, last_seq and event_hash_chain as they
\* were; the finalize of a trace whose chunk rows hold no event at all does not
\* fail: it succeeds with a document of no events, num_events 0 and duration 0
\* (or answers AlreadyCompleted once that document exists).
C34_EmptyChunkIsValid ==
    \A t \in DOMAIN traces :
        /\ \A c \in ChunkIds, b \in IngestBodies :
              (ingest_check(t, c) = "novel" /\ b.events = <<>>) =>
                  LET out == IngestOutcome(t, c, b)
                  IN  /\ out.result = "success"
                      /\ \E row \in out.chunks \ chunks :
                            row.id = c /\ row.trace_id = t /\ row.num_events = 0
                      /\ out.traces[t].status = INGESTING
                      /\ out.traces[t].num_events = traces[t].num_events
                      /\ out.traces[t].last_seq = traces[t].last_seq
                      /\ out.traces[t].event_hash_chain = traces[t].event_hash_chain
        /\ OnlyEmptyChunks(t) =>
              \A out \in FinalizeOutcomes(t) :
                  IF traces[t].status = COMPLETED
                  THEN out.result = "already_completed"
                  ELSE /\ out.result = "success"
                       /\ out.info.num_events = 0
                       /\ out.docs[final_uri(t)].events = <<>>
                       /\ out.docs[final_uri(t)].metrics.num_events = 0
                       /\ compute_metrics(out.docs[final_uri(t)].events).duration_s = 0
                       /\ metrics_validate(compute_metrics(out.docs[final_uri(t)].events))

\* C34 witness: finalize has succeeded for a trace with two chunk rows, none of
\* which holds an event: the document has no events.
C34_Witness ==
    /\ resp[SeqWorker].op = "finalize"
    /\ resp[SeqWorker].result = "success"
    /\ resp[SeqWorker].info.num_events = 0
    /\ \E t \in DOMAIN traces :
          /\ resp[SeqWorker].trace = t
          /\ OnlyEmptyChunks(t)
          /\ Cardinality(ChunksOf(t)) = 2
          /\ traces[t].status = COMPLETED
          /\ traces[t].last_seq = -1
          /\ docs[final_uri(t)].events = <<>>

-----------------------------------------------------------------------------
(* Artifact rows *)

\* the entries of a mapping that are not empty, in their order
FilledEntries(entries) == SelectSeq(entries, LAMBDA e : e.value.form # "empty")

\* the entry is a mapping that has content and the given key
TaggedWith(entry, field) ==
    /\ entry.value.form = "mapping"
    /\ entry.value.content
    /\ entry.value[field] # ""

\* C35: ingest stores one artifact row for each non-empty entry of the mapping
\* and counts it; the row's type is the entry's type tag when the entry is a
\* mapping with content and a type, and the entry's key otherwise; the row has
\* an event id only when the entry supplies one (a mapping with content hands
\* its event id on); empty entries give no row and are not counted.
C35_ArtifactRows ==
    \A w \in Workers :
        resp[w].op = "artifacts" =>
            LET filled == FilledEntries(resp[w].info.entries)
                rows == resp[w].info.rows
            IN  /\ resp[w].info.artifacts_added = Len(filled)
                /\ Len(rows) = Len(filled)
                /\ \A i \in DOMAIN filled :
                      /\ rows[i].artifact_type =
                            IF TaggedWith(filled[i], "type")
                            THEN filled[i].value.type ELSE filled[i].key
                      /\ rows[i].event_id # NoEventId
                            => rows[i].event_id = filled[i].value.event_id
                      /\ TaggedWith(filled[i], "event_id")
                            => rows[i].event_id = filled[i].value.event_id

\* C35 witness: a mapping of an empty entry and an entry with content, type tag
\* and event id was processed: one row, of the tagged type, with the event id.
C35_Witness ==
    /\ resp[SeqWorker].op = "artifacts"
    /\ Len(resp[SeqWorker].info.entries) = 2
    /\ resp[SeqWorker].info.entries[1].value.form = "empty"
    /\ TaggedWith(resp[SeqWorker].info.entries[2], "type")
    /\ TaggedWith(resp[SeqWorker].info.entries[2], "event_id")
    /\ resp[SeqWorker].info.artifacts_added = 1
    /\ resp[SeqWorker].info.rows[1].artifact_type = "test_report"
    /\ resp[SeqWorker].info.rows[1].artifact_type
          # resp[SeqWorker].info.entries[2].key
    /\ resp[SeqWorker].info.rows[1].event_id \in EventIds

-----------------------------------------------------------------------------
(* Error responses of the ingest endpoint *)

\* the results the endpoint answers with an error status
IngestErrors ==
    {"not_found", "invalid_state", "integrity_error", "idempotency_error", "error"}

\* C36: an ingest request that is answered with an error leaves the trace row
\* (num_events, last_seq, event_hash_chain, status) and the chunk rows as they
\* were before the request, also when the error is raised by the recording of
\* the idempotency key after the chunk was processed.
C36_ErrorLeavesTraceUnadvanced ==
    \A t \in IdemTraceIds, k \in Keys \cup {NoKey}, c \in ChunkIds :
        \A b \in IdemBodiesFor(t, k, c) :
            LET h == HandledIngest(t, k, c, b)
            IN  h.result \in IngestErrors =>
                    /\ h.db.traces = traces
                    /\ h.db.chunks = chunks

-----------------------------------------------------------------------------
(* QA runs *)

\* a step in which a running QA job ends
QARunEnds == qa'.running < qa.running

\* C37: every QA run ends with the trace VALIDATED or FAILED, never VALIDATING:
\* a run that completes stores one QA result and sets VALIDATED, a run that
\* raises sets FAILED.
C37_QARunEndsValidatedOrFailed ==
    [][QARunEnds =>
          \A t \in DOMAIN traces :
              /\ traces'[t].status \in {VALIDATED, FAILED}
              /\ traces'[t].status = VALIDATED => t \in qa'.results]_vars

\* C38: repeating the complete request is harmless for QA: a complete call on
\* a trace that is already finalized queues no further QA job, and a trace that
\* is VALIDATED is never moved to VALIDATING or FAILED.
C38_CompleteStartsQAOnce ==
    [][\A t \in DOMAIN traces :
          /\ traces[t].final_trace_uri # NoUri => qa'.queued <= qa.queued
          /\ traces[t].status = VALIDATED =>
                traces'[t].status \notin {VALIDATING, FAILED}]_vars

-----------------------------------------------------------------------------
(* Completion timestamp of the document *)

\* C39: the completed_at written in the persisted document equals the
\* completed_at the same finalize call sets on the trace, and is not empty.
C39_DocumentCompletedAt ==
    \A t \in DOMAIN traces :
        \A out \in FinalizeOutcomes(t) :
            out.result = "success" =>
                /\ out.docs[final_uri(t)].completed_at = out.traces[t].completed_at
                /\ out.docs[final_uri(t)].completed_at # NoTime

====
